---- MODULE Spec2Model ----
(***************************************************************************)
(* AarambhNet echo servers: TcpServer (src/src/tcp/server.rs) and          *)
(* UdpServer (src/src/udp.rs).                                             *)
(*                                                                         *)
(* Both servers share one tokio::sync::Notify between shutdown() and the   *)
(* tasks that race on notified().  Notify is modelled by what it does:     *)
(*   - notify_one() hands the notification to the oldest registered        *)
(*     waiter, or stores ONE permit when nobody is registered;             *)
(*   - a Notified future consumes a stored permit at its first poll,       *)
(*     otherwise registers as a waiter;                                    *)
(*   - a Notified future dropped after it was handed a notification but    *)
(*     before it completed passes the notification on (next waiter, or     *)
(*     the permit).                                                        *)
(* tokio::select! polls its branches in a random order at every poll, a    *)
(* branch whose pattern does not match is disabled, and select! panics     *)
(* when every branch is disabled and there is no else branch.              *)
(***************************************************************************)
EXTENDS Integers, Sequences, FiniteSets, TLC

\* The buffer capacity: 1024 in the source, scaled down so that chunking and
\* truncation happen with short streams.
BufCap == 2

\* Bounds of the model.
MaxConn == 2
MaxShutdown == 2
MaxDgrams == 2
MaxBinds == 3
MaxVals == 2

\* The bytes all peers of the TCP server send in total: one more than the
\* buffer holds, so that one write can be split across two reads.
MaxSend == BufCap + 1

\* The longest datagram payload: one byte more than the buffer holds.
MaxPayload == BufCap + 1

Addrs == {"a", "b"}

Bytes == {0, 1}
Handlers == 1..MaxConn

Min(a, b) == IF a < b THEN a ELSE b

SeqToSet(q) == {q[i] : i \in 1..Len(q)}

RECURSIVE Flatten(_)
Flatten(ss) == IF ss = << >> THEN << >> ELSE Head(ss) \o Flatten(Tail(ss))

RECURSIVE SumLen(_, _)
SumLen(f, S) ==
  IF S = {} THEN 0
  ELSE LET x == CHOOSE y \in S : TRUE IN Len(f[x]) + SumLen(f, S \ {x})

VARIABLES
  \* ---- TcpServer ----
  acceptor,      \* run(): "running" or "panicked"
  acceptErrs,    \* number of accept() calls that returned Err
  hstate,        \* per handler: "none", "race", "wait", "write", "closed"
  reason,        \* per handler: why it closed ("" while open)
  permit,        \* Notify: a stored permit
  waiters,       \* Notify: registered Notified futures, oldest first
  notified,      \* Notify: waiters that were handed a notification
  shutdownCalls, \* number of shutdown() calls made
  sent,          \* per connection: every byte the peer has sent
  rpos,          \* per connection: how many of them the handler has read
  buffer,        \* per handler: the vec![0; 1024]
  nread,         \* per handler: n of the last Ok(n)
  chunks,        \* per connection: the chunks echoed, one per write_all
  partial        \* per connection: bytes a failed write_all got out

VARIABLES
  \* ---- UdpServer ----
  urun,          \* run(): "idle", "race", "wait", "norecv", "send", "returned"
  uresult,       \* what run() returned ("" while it has not)
  upermit,       \* Notify: a stored permit
  uwaiters,      \* Notify: registered Notified futures
  unotified,     \* Notify: waiters that were handed a notification
  ushutdownCalls,\* number of shutdown() calls made
  dgrams,        \* every datagram that arrived at the socket, in order
  rcount,        \* how many of them recv_from has returned
  recvErrs,      \* number of recv_from calls that returned Err
  ubuf,          \* the [0; 1024] buffer
  ulen,          \* len of the last Ok((len, addr))
  uaddr,         \* addr of the last Ok((len, addr))
  sends          \* every send_to call: destination, payload, outcome

VARIABLES
  \* ---- bind() of both servers ----
  sockets,       \* the endpoints bound in the system: << kind, address >>
  servers,       \* the server values bind() has returned and nobody dropped
  bindLog,       \* every bind() call: kind, address, result
  \* ---- HttpClient::merge_headers ----
  defaultHeaders,\* self.default_headers (Option<HeaderMap>)
  extraHeaders,  \* the headers argument (Option<HeaderMap>)
  mergedHeaders, \* the HeaderMap returned
  merged         \* merge_headers has returned

auxVars == << sockets, servers, bindLog, defaultHeaders, extraHeaders,
              mergedHeaders, merged >>

udpVars == << urun, uresult, upermit, uwaiters, unotified, ushutdownCalls,
              dgrams, rcount, recvErrs, ubuf, ulen, uaddr, sends >>

tcpVars == << acceptor, acceptErrs, hstate, reason, permit, waiters, notified,
              shutdownCalls, sent, rpos, buffer, nread,
              chunks, partial >>

vars == << tcpVars, udpVars, auxVars >>

Echoing == {"race", "wait", "write"}

TcpInit ==
  /\ acceptor = "running"
  /\ acceptErrs = 0
  /\ hstate = [h \in Handlers |-> "none"]
  /\ reason = [h \in Handlers |-> ""]
  /\ permit = FALSE
  /\ waiters = << >>
  /\ notified = {}
  /\ shutdownCalls = 0
  /\ sent = [h \in Handlers |-> << >>]
  /\ rpos = [h \in Handlers |-> 0]
  /\ buffer = [h \in Handlers |-> [i \in 1..BufCap |-> 0]]
  /\ nread = [h \in Handlers |-> 0]
  /\ chunks = [h \in Handlers |-> << >>]
  /\ partial = [h \in Handlers |-> << >>]

UdpInit ==
  /\ urun = "idle"
  /\ uresult = ""
  /\ upermit = FALSE
  /\ uwaiters = << >>
  /\ unotified = {}
  /\ ushutdownCalls = 0
  /\ dgrams = << >>
  /\ rcount = 0
  /\ recvErrs = 0
  /\ ubuf = [i \in 1..BufCap |-> 0]
  /\ ulen = 0
  /\ uaddr = "none"
  /\ sends = << >>

\* Option<HeaderMap>: None, or a map from header names to the values held
\* under the name (a HeaderMap holds one or more values per name).
EmptyMap == [n \in {} |-> << >>]
None == [some |-> FALSE, map |-> EmptyMap]
Some(m) == [some |-> TRUE, map |-> m]

BindInit ==
  /\ sockets = {}
  /\ servers = {}
  /\ bindLog = << >>

HttpIdle ==
  /\ defaultHeaders = None
  /\ extraHeaders = None
  /\ mergedHeaders = EmptyMap
  /\ merged = FALSE

Init == TcpInit /\ UdpInit /\ BindInit /\ HttpIdle

(***************************************************************************)
(* tokio::sync::Notify, as the two servers use it.                         *)
(***************************************************************************)
NotifyState(w, s, p) == [w |-> w, s |-> s, p |-> p]

\* Mutants of NotifyOne: a trigger that is dropped when nobody waits, a
\* trigger that wakes every waiter, a trigger that only ever stores the
\* permit, a trigger that flips the permit.
NotifyOneNoPermit(st) ==
  IF st.w # << >>
    THEN [w |-> Tail(st.w), s |-> st.s \cup {Head(st.w)}, p |-> st.p]
    ELSE st

NotifyWaiters(st) ==
  IF st.w # << >>
    THEN [w |-> << >>, s |-> st.s \cup SeqToSet(st.w), p |-> st.p]
    ELSE [w |-> st.w, s |-> st.s, p |-> TRUE]

NotifyOneStoreOnly(st) == [w |-> st.w, s |-> st.s, p |-> TRUE]

NotifyOneToggle(st) ==
  IF st.w # << >>
    THEN [w |-> Tail(st.w), s |-> st.s \cup {Head(st.w)}, p |-> st.p]
    ELSE [w |-> st.w, s |-> st.s, p |-> ~st.p]

\* notify_one(): hand the notification to the oldest waiter; with no waiter
\* store the (single) permit.
NotifyOne(st) ==
  IF st.w # << >>
    THEN [w |-> Tail(st.w), s |-> st.s \cup {Head(st.w)}, p |-> st.p]
    ELSE [w |-> st.w, s |-> st.s, p |-> TRUE]

RemoveFrom(w, h) == SelectSeq(w, LAMBDA x : x # h)

\* Mutant of DropNotified: dropping the future also takes the stored permit.
DropNotifiedTakesPermit(st, h) ==
  IF h \in st.s
    THEN NotifyOne([w |-> st.w, s |-> st.s \ {h}, p |-> st.p])
    ELSE [w |-> RemoveFrom(st.w, h), s |-> st.s, p |-> FALSE]

\* Mutant of DropNotified: a notification held by the dropped future is lost.
DropNotifiedLost(st, h) ==
  [w |-> RemoveFrom(st.w, h), s |-> st.s \ {h}, p |-> st.p]

\* Dropping the Notified future of task h when another select! branch won:
\* a registered waiter is unlinked; a waiter that already holds a
\* notification passes it on.
DropNotified(st, h) ==
  IF h \in st.s
    THEN NotifyOne([w |-> st.w, s |-> st.s \ {h}, p |-> st.p])
    ELSE [w |-> RemoveFrom(st.w, h), s |-> st.s, p |-> st.p]

CurNotify == NotifyState(waiters, notified, permit)

SetNotify(st) ==
  /\ waiters' = st.w
  /\ notified' = st.s
  /\ permit' = st.p

(***************************************************************************)
(* The peers of the TCP server (environment).                              *)
(***************************************************************************)
TotalSent == SumLen(sent, Handlers)

SendData == UNION {[1..k -> Bytes] : k \in 1..MaxSend}

\* A peer writes data; the bytes queue up in the connection's receive side.
PeerSend(h, data) ==
  /\ hstate[h] \in Echoing
  /\ TotalSent + Len(data) <= MaxSend
  /\ sent' = [sent EXCEPT ![h] = @ \o data]
  /\ UNCHANGED << acceptor, acceptErrs, hstate, reason, permit, waiters,
                  notified, shutdownCalls, rpos, buffer,
                  nread, chunks, partial >>
  /\ UNCHANGED << udpVars, auxVars >>

(***************************************************************************)
(* TcpServer::run: the accept loop.                                        *)
(***************************************************************************)
NextHandler == CHOOSE h \in Handlers :
                 /\ hstate[h] = "none"
                 /\ \A g \in Handlers : g < h => hstate[g] # "none"

\* Mutant of Accept: the accept loop races against the shutdown signal and
\* returns when it takes the stored trigger.
AcceptOrShutdown ==
  /\ acceptor = "running"
  /\ \/ /\ \E h \in Handlers : hstate[h] = "none"
        /\ hstate' = [hstate EXCEPT ![NextHandler] = "race"]
        /\ UNCHANGED << acceptor, permit >>
     \/ /\ permit
        /\ permit' = FALSE
        /\ acceptor' = "returned"
        /\ UNCHANGED hstate
  /\ UNCHANGED << acceptErrs, reason, waiters, notified,
                  shutdownCalls, sent, rpos, buffer,
                  nread, chunks, partial >>
  /\ UNCHANGED << udpVars, auxVars >>

\* accept() returned Ok((socket, addr)): spawn the handler task with a clone
\* of the Notify handle; the loop goes round.
Accept ==
  /\ acceptor = "running"
  /\ \E h \in Handlers : hstate[h] = "none"
  /\ hstate' = [hstate EXCEPT ![NextHandler] = "race"]
  /\ UNCHANGED << acceptor, acceptErrs, reason, permit, waiters, notified,
                  shutdownCalls, sent, rpos, buffer,
                  nread, chunks, partial >>
  /\ UNCHANGED << udpVars, auxVars >>

\* What the accept loop does after accept() returned Err: the pattern
\* Ok(..) does not match, the only branch of the select! is disabled and
\* there is no else branch, so select! panics.
AfterAcceptErr == "panicked"

AcceptFail ==
  /\ acceptor = "running"
  /\ acceptErrs' = acceptErrs + 1
  /\ acceptor' = AfterAcceptErr
  /\ UNCHANGED << hstate, reason, permit, waiters, notified, shutdownCalls,
                  sent, rpos, buffer, nread, chunks,
                  partial >>
  /\ UNCHANGED << udpVars, auxVars >>

(***************************************************************************)
(* The handler task: the inner select! loop.                               *)
(***************************************************************************)
\* Bytes of the peer are queued for the handler to read.
ReadReady(h) == rpos[h] < Len(sent[h])

\* Mutant of AtRace: the next read starts while the write is under way.
AtRaceOrWrite(h) == hstate[h] \in {"race", "wait", "write"}

AtRace(h) == hstate[h] \in {"race", "wait"}

\* Mutant of Close: the arm goes round the loop where it should return.
CloseContinue(h, why) ==
  /\ hstate' = [hstate EXCEPT ![h] = "race"]
  /\ reason' = [reason EXCEPT ![h] = why]

Close(h, why) ==
  /\ hstate' = [hstate EXCEPT ![h] = "closed"]
  /\ reason' = [reason EXCEPT ![h] = why]

\* Mutant of ReadLen: a read that is not limited by the buffer.
ReadLenUncapped(avail) == avail

\* socket.read(&mut buffer) returns at most the capacity of the buffer.
ReadLen(avail) == Min(avail, BufCap)

\* Mutant of ReadInto: the bytes read are not stored.
ReadIntoStale(buf, data) == buf

\* The buffer after a read of n bytes: the first n bytes are overwritten,
\* the rest keeps what it held.
ReadInto(buf, data) == data \o SubSeq(buf, Len(data) + 1, Len(buf))

\* Mutant of EchoSlice: the whole buffer is written, not its first n bytes.
EchoWhole(buf, n) == buf

\* &buffer[..n]
EchoSlice(buf, n) == SubSeq(buf, 1, n)

\* Mutant of ReadErr: the error leaves the task and ends run().
ReadErrFatal(h) ==
  /\ AtRace(h)
  /\ Close(h, "readerr")
  /\ acceptor' = "panicked"
  /\ SetNotify(DropNotified(CurNotify, h))
  /\ UNCHANGED << acceptErrs, shutdownCalls, sent, rpos, buffer, nread,
                  chunks, partial >>
  /\ UNCHANGED << udpVars, auxVars >>

\* The read branch wins with Err(e) (the connection broke): return.
ReadErr(h) ==
  /\ AtRace(h)
  /\ Close(h, "readerr")
  /\ SetNotify(DropNotified(CurNotify, h))
  /\ UNCHANGED << acceptor, acceptErrs, shutdownCalls, sent, rpos,
                  buffer, nread, chunks, partial >>
  /\ UNCHANGED << udpVars, auxVars >>

\* The read branch wins with Ok(0) (the peer closed after everything it
\* sent was read): return.
ReadEof(h) ==
  /\ AtRace(h)
  /\ rpos[h] = Len(sent[h])
  /\ Close(h, "eof")
  /\ nread' = [nread EXCEPT ![h] = 0]
  /\ SetNotify(DropNotified(CurNotify, h))
  /\ UNCHANGED << acceptor, acceptErrs, shutdownCalls, sent, rpos,
                  buffer, chunks, partial >>
  /\ UNCHANGED << udpVars, auxVars >>

\* Mutant of ReadData: one buffer shared by all the handlers.
ReadDataShared(h) ==
  /\ AtRace(h)
  /\ rpos[h] < Len(sent[h])
  /\ LET n == ReadLen(Len(sent[h]) - rpos[h])
         data == SubSeq(sent[h], rpos[h] + 1, rpos[h] + n)
     IN /\ buffer' = [g \in Handlers |-> ReadInto(buffer[g], data)]
        /\ nread' = [nread EXCEPT ![h] = n]
        /\ rpos' = [rpos EXCEPT ![h] = @ + n]
  /\ hstate' = [hstate EXCEPT ![h] = "write"]
  /\ SetNotify(DropNotified(CurNotify, h))
  /\ UNCHANGED << acceptor, acceptErrs, reason, shutdownCalls, sent,
                  chunks, partial >>
  /\ UNCHANGED << udpVars, auxVars >>

\* The read branch wins with Ok(n), n > 0: the handler goes on to
\* socket.write_all(&buffer[..n]).
ReadData(h) ==
  /\ AtRace(h)
  /\ rpos[h] < Len(sent[h])
  /\ LET n == ReadLen(Len(sent[h]) - rpos[h])
         data == SubSeq(sent[h], rpos[h] + 1, rpos[h] + n)
     IN /\ buffer' = [buffer EXCEPT ![h] = ReadInto(@, data)]
        /\ nread' = [nread EXCEPT ![h] = n]
        /\ rpos' = [rpos EXCEPT ![h] = @ + n]
  /\ hstate' = [hstate EXCEPT ![h] = "write"]
  /\ SetNotify(DropNotified(CurNotify, h))
  /\ UNCHANGED << acceptor, acceptErrs, reason, shutdownCalls, sent,
                  chunks, partial >>
  /\ UNCHANGED << udpVars, auxVars >>

\* Neither branch is ready at the poll: the Notified future registers as a
\* waiter and the task suspends inside the select!.
Suspend(h) ==
  /\ hstate[h] = "race"
  /\ ~ReadReady(h)
  /\ ~permit
  /\ hstate' = [hstate EXCEPT ![h] = "wait"]
  /\ waiters' = Append(waiters, h)
  /\ UNCHANGED << acceptor, acceptErrs, reason, permit, notified,
                  shutdownCalls, sent, rpos, buffer,
                  nread, chunks, partial >>
  /\ UNCHANGED << udpVars, auxVars >>

\* Mutant of ShutdownBranch: taking the stored permit leaves it in place.
ShutdownBranchKeepPermit(h) ==
  /\ \/ /\ hstate[h] = "race"
        /\ permit
        /\ UNCHANGED << permit, notified >>
     \/ /\ hstate[h] = "wait"
        /\ h \in notified
        /\ notified' = notified \ {h}
        /\ UNCHANGED permit
  /\ Close(h, "shutdown")
  /\ UNCHANGED << acceptor, acceptErrs, waiters, shutdownCalls, sent, rpos,
                  buffer, nread, chunks, partial >>
  /\ UNCHANGED << udpVars, auxVars >>

\* Mutant of ShutdownBranch: the stored permit also ends a handler that is
\* in the middle of its write_all.
ShutdownBranchAnywhere(h) ==
  /\ \/ /\ hstate[h] \in {"race", "write"}
        /\ permit
        /\ permit' = FALSE
        /\ UNCHANGED notified
     \/ /\ hstate[h] = "wait"
        /\ h \in notified
        /\ notified' = notified \ {h}
        /\ UNCHANGED permit
  /\ Close(h, "shutdown")
  /\ UNCHANGED << acceptor, acceptErrs, waiters, shutdownCalls, sent, rpos,
                  buffer, nread, chunks, partial >>
  /\ UNCHANGED << udpVars, auxVars >>

\* notify.notified() completes: at the first poll by consuming the stored
\* permit, later because this waiter was handed the notification.  return.
ShutdownBranch(h) ==
  /\ \/ /\ hstate[h] = "race"
        /\ permit
        /\ permit' = FALSE
        /\ UNCHANGED notified
     \/ /\ hstate[h] = "wait"
        /\ h \in notified
        /\ notified' = notified \ {h}
        /\ UNCHANGED permit
  /\ Close(h, "shutdown")
  /\ UNCHANGED << acceptor, acceptErrs, waiters, shutdownCalls, sent, rpos,
                  buffer, nread, chunks, partial >>
  /\ UNCHANGED << udpVars, auxVars >>

\* write_all(&buffer[..n]) returned Ok: back to the top of the loop.
WriteOk(h) ==
  /\ hstate[h] = "write"
  /\ chunks' = [chunks EXCEPT ![h] = Append(@, EchoSlice(buffer[h], nread[h]))]
  /\ hstate' = [hstate EXCEPT ![h] = "race"]
  /\ UNCHANGED << acceptor, acceptErrs, reason, permit, waiters, notified,
                  shutdownCalls, sent, rpos, buffer,
                  nread, partial >>
  /\ UNCHANGED << udpVars, auxVars >>

\* write_all(&buffer[..n]) returned Err after k < n bytes went out: return.
WriteFail(h, k) ==
  /\ hstate[h] = "write"
  /\ k < nread[h]
  /\ partial' = [partial EXCEPT ![h] = SubSeq(EchoSlice(buffer[h], nread[h]), 1, k)]
  /\ Close(h, "writeerr")
  /\ UNCHANGED << acceptor, acceptErrs, permit, waiters, notified,
                  shutdownCalls, sent, rpos, buffer,
                  nread, chunks >>
  /\ UNCHANGED << udpVars, auxVars >>

\* Mutant of Shutdown: the call also ends every handler that is waiting.
ShutdownAbort ==
  /\ shutdownCalls < MaxShutdown
  /\ shutdownCalls' = shutdownCalls + 1
  /\ SetNotify(NotifyOne(CurNotify))
  /\ hstate' = [h \in Handlers |->
                  IF hstate[h] = "wait" THEN "closed" ELSE hstate[h]]
  /\ UNCHANGED << acceptor, acceptErrs, reason, sent, rpos, buffer, nread,
                  chunks, partial >>
  /\ UNCHANGED << udpVars, auxVars >>

(***************************************************************************)
(* TcpServer::shutdown: self.notify.notify_one().                          *)
(***************************************************************************)
Shutdown ==
  /\ shutdownCalls < MaxShutdown
  /\ shutdownCalls' = shutdownCalls + 1
  /\ SetNotify(NotifyOne(CurNotify))
  /\ UNCHANGED << acceptor, acceptErrs, hstate, reason, sent, rpos,
                  buffer, nread, chunks, partial >>
  /\ UNCHANGED << udpVars, auxVars >>

Next ==
  \/ Accept
  \/ AcceptFail
  \/ Shutdown
  \/ \E h \in Handlers, data \in SendData : PeerSend(h, data)
  \/ \E h \in Handlers : ReadErr(h)
  \/ \E h \in Handlers : ReadEof(h)
  \/ \E h \in Handlers : ReadData(h)
  \/ \E h \in Handlers : Suspend(h)
  \/ \E h \in Handlers : ShutdownBranch(h)
  \/ \E h \in Handlers : WriteOk(h)
  \/ \E h \in Handlers, k \in 0..(BufCap - 1) : WriteFail(h, k)

Spec == Init /\ [][Next]_vars

(***************************************************************************)
(* The clients of the UDP server (environment).                            *)
(***************************************************************************)
Payloads == UNION {[1..k -> Bytes] : k \in 0..MaxPayload}

\* A datagram from src arrives at the server's socket.
ClientSend(src, payload) ==
  /\ urun # "returned"
  /\ Len(dgrams) < MaxDgrams
  /\ dgrams' = Append(dgrams, [src |-> src, payload |-> payload])
  /\ UNCHANGED << urun, uresult, upermit, uwaiters, unotified,
                  ushutdownCalls, rcount, recvErrs, ubuf, ulen, uaddr, sends >>
  /\ UNCHANGED << tcpVars, auxVars >>

(***************************************************************************)
(* UdpServer::run: one select! loop.                                       *)
(***************************************************************************)
Loop == "run"

UCurNotify == NotifyState(uwaiters, unotified, upermit)

USetNotify(st) ==
  /\ uwaiters' = st.w
  /\ unotified' = st.s
  /\ upermit' = st.p

\* A notification this loop can take at its poll of notified().
UCanTake == IF Loop \in unotified \/ Loop \in SeqToSet(uwaiters)
              THEN Loop \in unotified
              ELSE upermit

\* server.run() is called.
URun ==
  /\ urun = "idle"
  /\ urun' = "race"
  /\ UNCHANGED << uresult, upermit, uwaiters, unotified, ushutdownCalls,
                  dgrams, rcount, recvErrs, ubuf, ulen, uaddr, sends >>
  /\ UNCHANGED << tcpVars, auxVars >>

\* Mutant of RecvLen: a receive that is not limited by the buffer.
RecvLenUncapped(plen) == plen

\* recv_from(&mut buf) stores at most the capacity of the buffer; the rest
\* of the datagram is discarded.
RecvLen(plen) == Min(plen, BufCap)

\* The receive branch wins with Ok((len, addr)): the loop goes on to
\* send_to(&buf[..len], addr).
URecv ==
  /\ urun \in {"race", "wait"}
  /\ rcount < Len(dgrams)
  /\ LET d == dgrams[rcount + 1]
         len == RecvLen(Len(d.payload))
     IN /\ ubuf' = ReadInto(ubuf, SubSeq(d.payload, 1, len))
        /\ ulen' = len
        /\ uaddr' = d.src
  /\ rcount' = rcount + 1
  /\ urun' = "send"
  /\ USetNotify(DropNotified(UCurNotify, Loop))
  /\ UNCHANGED << uresult, ushutdownCalls, dgrams, recvErrs, sends >>
  /\ UNCHANGED << tcpVars, auxVars >>

\* Mutant of URecvErr: the error is returned from run().
URecvErrFatal ==
  /\ urun \in {"race", "wait"}
  /\ recvErrs' = recvErrs + 1
  /\ urun' = "returned"
  /\ uresult' = "err"
  /\ USetNotify(DropNotified(UCurNotify, Loop))
  /\ UNCHANGED << ushutdownCalls, dgrams, rcount, ubuf, ulen, uaddr, sends >>
  /\ UNCHANGED << tcpVars, auxVars >>

\* Mutant of URecvErr: the error is logged and the loop goes round.
URecvErrContinue ==
  /\ urun \in {"race", "wait"}
  /\ recvErrs < MaxDgrams
  /\ recvErrs' = recvErrs + 1
  /\ urun' = "race"
  /\ USetNotify(DropNotified(UCurNotify, Loop))
  /\ UNCHANGED << uresult, ushutdownCalls, dgrams, rcount, ubuf, ulen, uaddr,
                  sends >>
  /\ UNCHANGED << tcpVars, auxVars >>

\* recv_from returned Err: the pattern Ok(..) does not match, the receive
\* branch is disabled and the select! goes on with notified() alone; when
\* a notification is there at this poll, notified() completes in it.
URecvErr ==
  /\ urun \in {"race", "wait"}
  /\ recvErrs' = recvErrs + 1
  /\ IF UCanTake
       THEN /\ urun' = "returned"
            /\ uresult' = "ok"
            /\ uwaiters' = uwaiters
            /\ unotified' = unotified \ {Loop}
            /\ upermit' = IF Loop \in unotified THEN upermit ELSE FALSE
       ELSE /\ urun' = "norecv"
            /\ uresult' = uresult
            /\ uwaiters' = IF urun = "race" THEN Append(uwaiters, Loop)
                                            ELSE uwaiters
            /\ UNCHANGED << unotified, upermit >>
  /\ UNCHANGED << ushutdownCalls, dgrams, rcount, ubuf, ulen, uaddr, sends >>
  /\ UNCHANGED << tcpVars, auxVars >>

\* Nothing is ready at the poll: the Notified future registers as a waiter
\* and the loop suspends inside the select!.
USuspend ==
  /\ urun = "race"
  /\ rcount = Len(dgrams)
  /\ ~upermit
  /\ urun' = "wait"
  /\ uwaiters' = Append(uwaiters, Loop)
  /\ UNCHANGED << uresult, upermit, unotified, ushutdownCalls, dgrams,
                  rcount, recvErrs, ubuf, ulen, uaddr, sends >>
  /\ UNCHANGED << tcpVars, auxVars >>

\* Mutant of UShutdownBranch: the stored permit also ends a loop that is in
\* the middle of its send_to.
UShutdownBranchAnywhere ==
  /\ \/ /\ urun \in {"race", "send"}
        /\ upermit
        /\ upermit' = FALSE
        /\ UNCHANGED unotified
     \/ /\ urun \in {"wait", "norecv"}
        /\ Loop \in unotified
        /\ unotified' = unotified \ {Loop}
        /\ UNCHANGED upermit
  /\ urun' = "returned"
  /\ uresult' = "ok"
  /\ UNCHANGED << uwaiters, ushutdownCalls, dgrams, rcount, recvErrs, ubuf,
                  ulen, uaddr, sends >>
  /\ UNCHANGED << tcpVars, auxVars >>

\* notified() completes: return Ok(()).
UShutdownBranch ==
  /\ \/ /\ urun = "race"
        /\ upermit
        /\ upermit' = FALSE
        /\ UNCHANGED unotified
     \/ /\ urun \in {"wait", "norecv"}
        /\ Loop \in unotified
        /\ unotified' = unotified \ {Loop}
        /\ UNCHANGED upermit
  /\ urun' = "returned"
  /\ uresult' = "ok"
  /\ UNCHANGED << uwaiters, ushutdownCalls, dgrams, rcount, recvErrs, ubuf,
                  ulen, uaddr, sends >>
  /\ UNCHANGED << tcpVars, auxVars >>

\* Mutant of AfterSendErr: the failed send is tried again.
AfterSendErrRetry == "send"

\* What the loop does after send_to returned Err: the error is logged and
\* the loop goes round.
AfterSendErr == "race"

\* Mutant of EchoReply: the reply carries the whole buffer.
EchoReplyWhole(buf, len, addr) == [dst |-> addr, payload |-> buf]

\* The arguments of send_to(&buf[..len], addr).
EchoReply(buf, len, addr) == [dst |-> addr, payload |-> EchoSlice(buf, len)]

\* send_to(&buf[..len], addr) returned Ok or Err.
USend(ok) ==
  /\ urun = "send"
  /\ sends' = Append(sends, [dst |-> EchoReply(ubuf, ulen, uaddr).dst,
                             payload |-> EchoReply(ubuf, ulen, uaddr).payload,
                             ok |-> ok])
  /\ urun' = IF ok THEN "race" ELSE AfterSendErr
  /\ UNCHANGED << uresult, upermit, uwaiters, unotified, ushutdownCalls,
                  dgrams, rcount, recvErrs, ubuf, ulen, uaddr >>
  /\ UNCHANGED << tcpVars, auxVars >>

(***************************************************************************)
(* UdpServer::shutdown: self.notify.notify_one().                          *)
(***************************************************************************)
UShutdown ==
  /\ ushutdownCalls < MaxShutdown
  /\ ushutdownCalls' = ushutdownCalls + 1
  /\ USetNotify(NotifyOne(UCurNotify))
  /\ UNCHANGED << urun, uresult, dgrams, rcount, recvErrs, ubuf, ulen,
                  uaddr, sends >>
  /\ UNCHANGED << tcpVars, auxVars >>

UdpNext ==
  \/ URun
  \/ UShutdown
  \/ \E src \in Addrs, payload \in Payloads : ClientSend(src, payload)
  \/ URecv
  \/ URecvErr
  \/ USuspend
  \/ UShutdownBranch
  \/ \E ok \in BOOLEAN : USend(ok)

UdpSpec == Init /\ [][UdpNext]_vars

TypeOK ==
  /\ acceptor \in {"running", "panicked"}
  /\ hstate \in [Handlers -> {"none", "race", "wait", "write", "closed"}]
  /\ permit \in BOOLEAN
  /\ notified \subseteq Handlers
  /\ permit => waiters = << >>
  /\ \A h \in Handlers : Len(buffer[h]) = BufCap /\ nread[h] \in 0..BufCap
  /\ \A h \in Handlers : hstate[h] = "wait" <=>
        (h \in notified \/ \E i \in 1..Len(waiters) : waiters[i] = h)

UTypeOK ==
  /\ urun \in {"idle", "race", "wait", "norecv", "send", "returned"}
  /\ upermit => uwaiters = << >>
  /\ urun \in {"wait", "norecv"} <=>
        (Loop \in unotified \/ uwaiters = << Loop >>)
  /\ Len(sends) = rcount - (IF urun = "send" THEN 1 ELSE 0)
  /\ Len(ubuf) = BufCap

(***************************************************************************)
(* TcpServer::bind and UdpServer::bind.  An address is the text the caller *)
(* passes, split at the colon: << host, port >>, or << host >> when the    *)
(* text has no port.                                                       *)
(***************************************************************************)
Kinds == {"tcp", "udp"}

BindArgs == { << "127.0.0.1", 8000 >>, << "127.0.0.1", 8001 >>,
              << "127.0.0.1" >> }

\* The address text names a host and a port.
WellFormed(addr) == Len(addr) = 2 /\ addr[2] \in 0..65535

\* Mutant of BindResult: an address in use is bound a second time.
BindResultReuse(socks, kind, addr) ==
  IF ~WellFormed(addr) THEN "err" ELSE "ok"

\* TcpListener::bind(addr).await? / UdpSocket::bind(addr).await?: the Err
\* of a malformed address or of an endpoint in use goes back to the caller.
BindResult(socks, kind, addr) ==
  IF ~WellFormed(addr) THEN "err"
  ELSE IF << kind, addr >> \in socks THEN "err"
  ELSE "ok"

\* bind(addr) of a server of the given kind.
Bind(kind, addr) ==
  /\ Len(bindLog) < MaxBinds
  /\ LET r == BindResult(sockets, kind, addr)
     IN /\ bindLog' = Append(bindLog, [kind |-> kind, addr |-> addr, result |-> r])
        /\ IF r = "ok"
             THEN /\ sockets' = sockets \cup {<< kind, addr >>}
                  /\ servers' = servers \cup {<< kind, addr >>}
             ELSE UNCHANGED << sockets, servers >>
  /\ UNCHANGED << defaultHeaders, extraHeaders, mergedHeaders, merged >>
  /\ UNCHANGED << tcpVars, udpVars >>

\* The owner drops a server: its endpoint is released.
DropServer(srv) ==
  /\ srv \in servers
  /\ servers' = servers \ {srv}
  /\ sockets' = sockets \ {srv}
  /\ UNCHANGED << bindLog, defaultHeaders, extraHeaders, mergedHeaders,
                  merged >>
  /\ UNCHANGED << tcpVars, udpVars >>

BindNext ==
  \/ \E kind \in Kinds, addr \in BindArgs : Bind(kind, addr)
  \/ \E srv \in Kinds \X BindArgs : DropServer(srv)

BindSpec == Init /\ [][BindNext]_vars

(***************************************************************************)
(* HttpClient::merge_headers.  A HeaderMap holds, under each name it has,  *)
(* one or more values in order.                                            *)
(***************************************************************************)
HeaderNames == {"accept", "x-id"}
HeaderVals == {"a", "b"}

ValLists == UNION {[1..k -> HeaderVals] : k \in 1..MaxVals}
HeaderMaps == UNION {[D -> ValLists] : D \in SUBSET HeaderNames}
HeaderOpts == {None} \cup {Some(m) : m \in HeaderMaps}

\* HeaderMap::insert: the value replaces every value held under the name.
Insert(map, k, v) ==
  [n \in (DOMAIN map) \cup {k} |-> IF n = k THEN << v >> ELSE map[n]]

\* HeaderMap::iter: every (name, value) pair, the values of one name in
\* their order.
RECURSIVE IterPairs(_)
IterPairs(map) ==
  IF DOMAIN map = {} THEN << >>
  ELSE LET n == CHOOSE x \in DOMAIN map : TRUE
           rest == [x \in (DOMAIN map) \ {n} |-> map[x]]
       IN [i \in 1..Len(map[n]) |-> << n, map[n][i] >>] \o IterPairs(rest)

\* for (key, value) in extra_headers.iter() { merged_headers.insert(..) }
RECURSIVE InsertAll(_, _)
InsertAll(map, pairs) ==
  IF pairs = << >> THEN map
  ELSE InsertAll(Insert(map, Head(pairs)[1], Head(pairs)[2]), Tail(pairs))

MergeHeaders(defaults, extras) ==
  LET base == IF defaults.some THEN defaults.map ELSE EmptyMap
  IN IF extras.some THEN InsertAll(base, IterPairs(extras.map)) ELSE base

\* A request method calls self.merge_headers(headers).
MergeCall ==
  /\ ~merged
  /\ mergedHeaders' = MergeHeaders(defaultHeaders, extraHeaders)
  /\ merged' = TRUE
  /\ UNCHANGED << sockets, servers, bindLog, defaultHeaders, extraHeaders >>
  /\ UNCHANGED << tcpVars, udpVars >>

HttpInit ==
  /\ TcpInit
  /\ UdpInit
  /\ BindInit
  /\ defaultHeaders \in HeaderOpts
  /\ extraHeaders \in HeaderOpts
  /\ mergedHeaders = EmptyMap
  /\ merged = FALSE

HttpNext == MergeCall

HttpSpec == HttpInit /\ [][HttpNext]_vars

(***************************************************************************)
(* Specifications with fairness.  An in-flight write_all or send_to        *)
(* completes, run() is called, and a select! branch that is ready again    *)
(* and again is eventually the one taken (select! picks the branch it      *)
(* polls first at random at every poll).                                   *)
(***************************************************************************)
LiveSpec ==
  /\ Spec
  /\ \A h \in Handlers :
        /\ WF_vars(WriteOk(h) \/ \E k \in 0..(BufCap - 1) : WriteFail(h, k))
        /\ SF_vars(ShutdownBranch(h))

UdpLiveSpec ==
  /\ UdpSpec
  /\ WF_vars(URun)
  /\ WF_vars(\E ok \in BOOLEAN : USend(ok))
  /\ SF_vars(UShutdownBranch)

(***************************************************************************)
(* Properties.                                                             *)
(***************************************************************************)
ShutdownClosed == {h \in Handlers : reason[h] = "shutdown"}

Others(h) == Handlers \ {h}

OnlyConnection(h) == \A g \in Others(h) : hstate[g] = "none"

\* C1: with exactly one stream connection, whose handler is echoing, a
\* shutdown() call eventually brings that handler to Closed, whether it
\* came while the handler waited at the race or while it was writing (for
\* as long as no second connection is accepted).
C1_OnlyHandlerCloses ==
  (shutdownCalls >= 1 /\ hstate[1] \in Echoing /\ OnlyConnection(1))
    ~> (hstate[1] = "closed" \/ ~OnlyConnection(1))

\* C1 witness: the only handler echoed a chunk and then closed through the
\* shutdown branch after one shutdown() call.
C1_Witness ==
  /\ OnlyConnection(1)
  /\ shutdownCalls = 1
  /\ reason[1] = "shutdown"
  /\ Len(chunks[1]) >= 1

\* C2: after one shutdown() call at most one handler closes through the
\* shutdown branch, however many handlers are active; the trigger is held
\* in at most one place (the permit or one notified waiter).
C2_OneTriggerOneHandler ==
  shutdownCalls = 1 =>
    Cardinality(ShutdownClosed) + Cardinality(notified)
      + (IF permit THEN 1 ELSE 0) <= 1

\* C2 witness: two handlers were waiting, one shutdown() call was made, one
\* handler closed through the shutdown branch and the other still waits.
C2_Witness ==
  /\ shutdownCalls = 1
  /\ \E h \in Handlers : \E g \in Others(h) :
        /\ reason[h] = "shutdown"
        /\ hstate[g] = "wait"

\* C3: one run() loop and a shutdown() call made at any moment: run()
\* eventually returns Ok(()); the trigger is never lost.
C3_ShutdownNeverLost ==
  (ushutdownCalls >= 1) ~> (urun = "returned" /\ uresult = "ok")

\* C3 witness: shutdown() was called before run() was, and run() returned
\* Ok(()) after it had echoed a datagram.
C3_Witness ==
  /\ urun = "returned"
  /\ uresult = "ok"
  /\ ushutdownCalls = 1
  /\ Len(sends) >= 1

\* C4: shutdown() invoked while the run() loop waits in its race with no
\* datagram pending: run() leaves the loop and returns Ok(()).
C4_IdleShutdownReturnsOk ==
  (urun = "wait" /\ rcount = Len(dgrams) /\ ushutdownCalls >= 1)
    ~> (urun = "returned" /\ uresult = "ok")

\* C4 witness: run() returned Ok(()) and no datagram ever arrived.
C4_Witness ==
  /\ urun = "returned"
  /\ uresult = "ok"
  /\ dgrams = << >>
  /\ recvErrs = 0

\* C5: a failed accept leaves the accept loop running.
C5_AcceptErrorKeepsLoop == acceptErrs > 0 => acceptor = "running"

LastOf(q) == q[Len(q)]

\* The bytes the last read of handler h took from the peer's stream.
LastRead(h) == SubSeq(sent[h], rpos[h] - nread[h] + 1, rpos[h])

\* C6: when a handler has echoed a read of n bytes, n in 1..capacity, the
\* chunk it wrote is exactly the n bytes it read, in order.
C6_EchoIdentity ==
  \A h \in Handlers :
    (hstate[h] \in {"race", "wait"} /\ chunks[h] # << >>) =>
      /\ LastOf(chunks[h]) = LastRead(h)
      /\ Len(LastOf(chunks[h])) \in 1..BufCap

\* C6 witness: a handler echoed a full-buffer chunk of two different bytes.
C6_Witness ==
  \E h \in Handlers :
    /\ hstate[h] = "race"
    /\ chunks[h] = << << 1, 0 >> >>

IsPrefix(p, q) == Len(p) <= Len(q) /\ p = SubSeq(q, 1, Len(p))

\* C7: a stream longer than the buffer is echoed in several chunks, each at
\* most the capacity: the first chunk is the leading bytes of the stream
\* and the chunks together are the bytes read so far.
C7_Chunking ==
  \A h \in Handlers :
    /\ \A i \in 1..Len(chunks[h]) : Len(chunks[h][i]) \in 1..BufCap
    /\ chunks[h] # << >> => IsPrefix(chunks[h][1], sent[h])
    /\ hstate[h] \in {"race", "wait"} =>
          Flatten(chunks[h]) = SubSeq(sent[h], 1, rpos[h])
    /\ (hstate[h] \in {"race", "wait"} /\ rpos[h] = Len(sent[h])
          /\ Len(sent[h]) > BufCap) => Len(chunks[h]) >= 2

\* C7 witness: a stream of capacity + 1 bytes was echoed as a full chunk
\* followed by a one-byte chunk.
C7_Witness ==
  \E h \in Handlers :
    /\ Len(sent[h]) = BufCap + 1
    /\ Len(chunks[h]) = 2
    /\ Len(chunks[h][1]) = BufCap
    /\ Len(chunks[h][2]) = 1
    /\ Flatten(chunks[h]) = sent[h]

\* C8: for every datagram received there is exactly one send_to, in order,
\* addressed to the datagram's source; when the payload fits the buffer
\* the reply's payload is the payload received.
C8_DatagramEcho ==
  /\ Len(sends) = rcount - (IF urun = "send" THEN 1 ELSE 0)
  /\ \A k \in 1..Len(sends) :
        /\ sends[k].dst = dgrams[k].src
        /\ Len(dgrams[k].payload) <= BufCap =>
              sends[k].payload = dgrams[k].payload

\* C8 witness: two datagrams from different sources were echoed, the
\* second one shorter than the first.
C8_Witness ==
  /\ Len(sends) = 2
  /\ sends[1] = [dst |-> "a", payload |-> << 1, 0 >>, ok |-> TRUE]
  /\ sends[2] = [dst |-> "b", payload |-> << 1 >>, ok |-> TRUE]

\* C9 as stated: a second shutdown() call terminates nothing beyond what the
\* first call terminates (which is at most one handler).
C9_SecondCallNoOp == Cardinality(ShutdownClosed) <= 1

\* C9 amended: a shutdown() call made while the permit of an earlier call
\* is still stored changes nothing (the Notify state and every handler
\* stay as they are).
C9_RetriggerStoredIsNoOp ==
  [][(shutdownCalls' = shutdownCalls + 1 /\ permit) =>
       UNCHANGED << permit, waiters, notified, hstate, reason >>]_vars

\* C9 amended, witness: two shutdown() calls were made with no handler
\* waiting; one permit is stored and no handler has closed through it.
C9_Witness ==
  /\ shutdownCalls = 2
  /\ permit
  /\ ShutdownClosed = {}
  /\ \E h \in Handlers : hstate[h] = "write"

\* C10: a failed send_to is not fatal and not retried: the loop goes back
\* to its race, run() has not returned because of it, run() never returns
\* an error, and no datagram has more than one send_to.
C10_SendFailureNonFatal ==
  /\ [](uresult \in {"", "ok"} /\ Len(sends) <= rcount)
  /\ [][(urun = "send" /\ Len(sends') = Len(sends) + 1
          /\ ~LastOf(sends').ok) =>
          (urun' = "race" /\ uresult' = uresult)]_vars

\* C10 witness: the first echo failed, a later datagram was received and
\* echoed, and run() then returned Ok(()) on shutdown.
C10_Witness ==
  /\ Len(sends) = 2
  /\ ~sends[1].ok
  /\ sends[2].ok
  /\ urun = "returned"
  /\ uresult = "ok"

\* C11: bind() on a malformed address or on an endpoint another server of
\* the same kind holds returns Err, and the call creates no server and no
\* socket and leaves the servers and sockets there are as they were.
C11_FailedBindChangesNothing ==
  [][\A kind \in Kinds, addr \in BindArgs :
       (/\ Len(bindLog') = Len(bindLog) + 1
        /\ LastOf(bindLog').kind = kind
        /\ LastOf(bindLog').addr = addr
        /\ (~WellFormed(addr) \/ << kind, addr >> \in sockets))
       => /\ LastOf(bindLog').result = "err"
          /\ sockets' = sockets
          /\ servers' = servers]_vars

\* C11 witness: a second bind to an address in use and a bind to a text
\* without a port both returned Err, and the first server is still there.
C11_Witness ==
  /\ Len(bindLog) = 3
  /\ bindLog[1] = [kind |-> "tcp", addr |-> << "127.0.0.1", 8000 >>, result |-> "ok"]
  /\ bindLog[2] = [kind |-> "tcp", addr |-> << "127.0.0.1", 8000 >>, result |-> "err"]
  /\ bindLog[3] = [kind |-> "tcp", addr |-> << "127.0.0.1" >>, result |-> "err"]
  /\ servers = {<< "tcp", << "127.0.0.1", 8000 >> >>}
  /\ sockets = servers

\* C12: a datagram longer than the buffer is received as its first
\* capacity bytes: its one send_to carries exactly those bytes to the
\* source, and there is no further send_to for the tail.
C12_Truncation ==
  /\ Len(sends) <= rcount
  /\ \A k \in 1..Len(sends) :
       Len(dgrams[k].payload) > BufCap =>
         /\ sends[k].payload = SubSeq(dgrams[k].payload, 1, BufCap)
         /\ sends[k].dst = dgrams[k].src

\* C12 witness: a datagram of capacity + 1 bytes was echoed as its first
\* capacity bytes, and the loop is back at its race with nothing pending.
C12_Witness ==
  /\ dgrams = << [src |-> "b", payload |-> << 1, 0, 1 >>] >>
  /\ sends = << [dst |-> "b", payload |-> << 1, 0 >>, ok |-> TRUE] >>
  /\ urun = "wait"

\* C13: the merged headers hold every default header whose name is not
\* among the extras unchanged, and under every name of the extras the
\* extras' values; with no extras they are the defaults, with no defaults
\* they are the extras.
C13_MergeOverrides ==
  merged =>
    /\ DOMAIN mergedHeaders = (DOMAIN defaultHeaders.map) \cup (DOMAIN extraHeaders.map)
    /\ \A n \in (DOMAIN defaultHeaders.map) \ (DOMAIN extraHeaders.map) :
         mergedHeaders[n] = defaultHeaders.map[n]
    /\ \A n \in DOMAIN extraHeaders.map :
         mergedHeaders[n] = extraHeaders.map[n]
    /\ extraHeaders.map = EmptyMap => mergedHeaders = defaultHeaders.map
    /\ defaultHeaders.map = EmptyMap => mergedHeaders = extraHeaders.map

\* C14: a handler closes through the shutdown branch only from its race
\* point, taking no bytes in that race and with every chunk it read
\* echoed; a handler that is writing goes on to the end of its write (back
\* to the race, or closed by the write error), whatever shutdown() does.
C14_ShutdownOnlyAtRace ==
  [][\A h \in Handlers :
       /\ (reason'[h] = "shutdown" /\ reason[h] # "shutdown") =>
            /\ hstate[h] \in {"race", "wait"}
            /\ rpos'[h] = rpos[h]
            /\ chunks'[h] = chunks[h]
            /\ Flatten(chunks[h]) = SubSeq(sent[h], 1, rpos[h])
       /\ hstate[h] = "write" =>
            \/ hstate'[h] \in {"write", "race"}
            \/ hstate'[h] = "closed" /\ reason'[h] = "writeerr"]_vars

\* C14 witness: shutdown() was called while a handler was in its write_all
\* of a full buffer; the trigger is stored and the handler is still writing.
C14_Witness ==
  \E h \in Handlers :
    /\ hstate[h] = "write"
    /\ nread[h] = BufCap
    /\ permit
    /\ shutdownCalls = 1

\* The handler h closes in this step because of a read or write error.
IOErrorStep(h) == reason[h] = "" /\ reason'[h] \in {"readerr", "writeerr"}

\* What a step leaves alone outside handler h: every other handler and its
\* connection, the accept loop, the count of shutdown() calls.
OthersUntouched(h) ==
  /\ \A g \in Others(h) :
       /\ hstate'[g] = hstate[g]
       /\ reason'[g] = reason[g]
       /\ sent'[g] = sent[g]
       /\ rpos'[g] = rpos[g]
       /\ buffer'[g] = buffer[g]
       /\ nread'[g] = nread[g]
       /\ chunks'[g] = chunks[g]
       /\ partial'[g] = partial[g]
  /\ acceptor' = acceptor
  /\ acceptErrs' = acceptErrs
  /\ shutdownCalls' = shutdownCalls

\* The shutdown triggers that are stored or handed out and not yet taken.
Pending == Cardinality(notified) + (IF permit THEN 1 ELSE 0)

\* C15 as stated: an I/O error on one connection changes nothing but that
\* handler: the other handlers, the accept loop and the shutdown signal
\* (apart from the failing handler's own registration) stay as they were.
C15_ErrorIsolated ==
  [][\A h \in Handlers :
       IOErrorStep(h) =>
         /\ OthersUntouched(h)
         /\ permit' = permit
         /\ notified' \ {h} = notified \ {h}
         /\ RemoveFrom(waiters', h) = RemoveFrom(waiters, h)]_vars

\* C15 amended: an I/O error on one connection closes only that handler
\* and leaves the other handlers' states and data and the accept loop as
\* they were; the shutdown signal is unchanged for the others unless the
\* failing handler had been handed a trigger, which is then passed on: to
\* the oldest waiting handler, or into the permit (where it merges with a
\* permit already stored).
C15_ErrorIsolatedButTriggerPassedOn ==
  [][\A h \in Handlers :
       IOErrorStep(h) =>
         /\ hstate'[h] = "closed"
         /\ OthersUntouched(h)
         /\ Pending' = IF h \in notified /\ permit THEN Pending - 1
                                                    ELSE Pending
         /\ h \notin notified =>
              /\ permit' = permit
              /\ notified' = notified
              /\ RemoveFrom(waiters', h) = RemoveFrom(waiters, h)
         /\ h \in notified =>
              /\ h \notin notified'
              /\ waiters = << >> => (permit' /\ notified' = notified \ {h})
              /\ waiters # << >> =>
                   /\ notified' = (notified \ {h}) \cup {Head(waiters)}
                   /\ waiters' = Tail(waiters)
                   /\ permit' = permit]_vars

\* C15 amended, witness: after one shutdown() call a handler closed on a
\* read error while another handler, still waiting, holds the trigger.
C15_Witness ==
  /\ shutdownCalls = 1
  /\ \E h \in Handlers : \E g \in Others(h) :
       /\ reason[h] = "readerr"
       /\ hstate[g] = "wait"
       /\ g \in notified

\* C16: shutdown() can be called in every state of the server (it waits
\* for nothing) and the call itself changes no handler, no connection and
\* not the accept loop: only the signal.
C16_ShutdownOnlyTriggers ==
  /\ [](shutdownCalls < MaxShutdown => ENABLED Shutdown)
  /\ [][shutdownCalls' # shutdownCalls =>
          UNCHANGED << hstate, reason, sent, rpos, buffer, nread, chunks,
                       partial, acceptor, acceptErrs >>]_vars

\* C16 witness: shutdown() was called once while one handler waited and
\* another was writing; both are where they were.
C16_Witness ==
  /\ shutdownCalls = 1
  /\ \E h \in Handlers : \E g \in Others(h) :
       /\ hstate[h] = "wait"
       /\ h \in notified
       /\ hstate[g] = "write"

\* Every byte the handler has written to the connection of h.
Echoed(h) == Flatten(chunks[h]) \o partial[h]

\* C17: the bytes echoed on a connection are always a prefix of the bytes
\* the peer sent on it, and they are all of them once the handler has read
\* everything and is back at its race (or has closed on the peer's EOF).
C17_AggregatePreserved ==
  \A h \in Handlers :
    /\ IsPrefix(Echoed(h), sent[h])
    /\ (rpos[h] = Len(sent[h])
         /\ (hstate[h] \in {"race", "wait"} \/ reason[h] = "eof"))
       => Echoed(h) = sent[h]

\* C17 witness: a stream of capacity + 1 bytes, not all alike, was echoed
\* in full before the peer closed.
C17_Witness ==
  \E h \in Handlers :
    /\ reason[h] = "eof"
    /\ sent[h] = << 0, 1, 1 >>
    /\ Echoed(h) = sent[h]

\* C18: on one connection a read is taken only at the race, when every
\* chunk read before has been written, and a chunk is written only by the
\* handler that is in the write following its own read.
C18_ReadWriteAlternate ==
  [][\A h \in Handlers :
       /\ rpos'[h] # rpos[h] =>
            /\ hstate[h] \in {"race", "wait"}
            /\ hstate'[h] = "write"
            /\ Flatten(chunks[h]) = SubSeq(sent[h], 1, rpos[h])
            /\ chunks'[h] = chunks[h]
       /\ chunks'[h] # chunks[h] =>
            /\ hstate[h] = "write"
            /\ hstate'[h] = "race"
            /\ Len(chunks'[h]) = Len(chunks[h]) + 1
            /\ rpos'[h] = rpos[h]
            /\ Flatten(chunks'[h]) = SubSeq(sent[h], 1, rpos[h])]_vars

\* C18 witness: a handler has read and echoed two chunks and is in the
\* write of its third read.
C18_Witness ==
  \E h \in Handlers :
    /\ Len(chunks[h]) = 2
    /\ hstate[h] = "write"
    /\ rpos[h] = BufCap + 1

\* What a step leaves alone of handler h and its connection.
HandlerUntouched(h) ==
  /\ hstate'[h] = hstate[h]
  /\ reason'[h] = reason[h]
  /\ rpos'[h] = rpos[h]
  /\ buffer'[h] = buffer[h]
  /\ chunks'[h] = chunks[h]
  /\ partial'[h] = partial[h]

\* C19: a read of 0 bytes closes the handler with no error and nothing
\* written; a closed handler (whatever closed it) does nothing more: it
\* reads nothing, writes nothing and waits for no signal.
C19_ClosedIsTerminal ==
  /\ [](\A h \in Handlers :
          /\ hstate[h] = "closed" <=> reason[h] # ""
          /\ hstate[h] = "closed" =>
               h \notin notified /\ h \notin SeqToSet(waiters))
  /\ [][\A h \in Handlers :
          /\ (reason[h] = "" /\ reason'[h] = "eof") =>
               /\ hstate'[h] = "closed"
               /\ nread'[h] = 0
               /\ chunks'[h] = chunks[h]
               /\ partial'[h] = partial[h]
               /\ rpos'[h] = rpos[h]
          /\ hstate[h] = "closed" => HandlerUntouched(h)]_vars

\* C19 witness: a handler closed on EOF after echoing a chunk, and a
\* shutdown() call made afterwards found nobody waiting.
C19_Witness ==
  \E h \in Handlers :
    /\ reason[h] = "eof"
    /\ Len(chunks[h]) = 1
    /\ OnlyConnection(h)
    /\ permit

\* C20: the run() loop serves datagrams one at a time: it receives the
\* next datagram only at its race with every earlier one answered by its
\* send_to, the send_to calls follow the order of arrival, and from the
\* middle of a send_to the loop only goes back to the race (it does not
\* return there).
C20_SerialLoop ==
  /\ [](\A k \in 1..Len(sends) :
          /\ sends[k].dst = dgrams[k].src
          /\ IsPrefix(sends[k].payload, dgrams[k].payload))
  /\ [][/\ rcount' # rcount =>
             /\ urun \in {"race", "wait"}
             /\ urun' = "send"
             /\ rcount' = rcount + 1
             /\ Len(sends) = rcount
        /\ urun = "send" =>
             /\ urun' \in {"send", "race"}
             /\ uresult' = uresult
             /\ rcount' = rcount]_vars

\* C20 witness: while the loop is in the send_to for the first datagram a
\* second datagram has arrived and shutdown() has been called; neither has
\* been looked at.
C20_Witness ==
  /\ urun = "send"
  /\ rcount = 1
  /\ Len(dgrams) = 2
  /\ upermit
  /\ sends = << >>

\* What a step leaves alone of the connection of g: the bytes on it and
\* everything its handler holds.
ConnUntouched(g) ==
  /\ sent'[g] = sent[g]
  /\ rpos'[g] = rpos[g]
  /\ buffer'[g] = buffer[g]
  /\ nread'[g] = nread[g]
  /\ chunks'[g] = chunks[g]
  /\ partial'[g] = partial[g]

\* C21: no data crosses connections.  What a handler is about to write is
\* what it last read from its own connection; a step that stores bytes in
\* a handler's buffer or writes bytes on its connection computes them from
\* that connection alone and leaves every other connection as it was; and
\* bytes arriving on one connection change nothing of another.
C21_NoCrossTalk ==
  /\ [](\A h \in Handlers :
          hstate[h] = "write" => EchoSlice(buffer[h], nread[h]) = LastRead(h))
  /\ [][\A h \in Handlers :
          /\ sent'[h] # sent[h] =>
               \A g \in Others(h) : ConnUntouched(g) /\ hstate'[g] = hstate[g]
          /\ buffer'[h] # buffer[h] =>
               /\ buffer'[h] = ReadInto(buffer[h],
                                  SubSeq(sent[h], rpos[h] + 1, rpos'[h]))
               /\ \A g \in Others(h) : ConnUntouched(g)
          /\ chunks'[h] # chunks[h] =>
               /\ chunks'[h] = Append(chunks[h], LastRead(h))
               /\ \A g \in Others(h) : ConnUntouched(g)
          /\ partial'[h] # partial[h] =>
               /\ IsPrefix(partial'[h], LastRead(h))
               /\ \A g \in Others(h) : ConnUntouched(g)]_vars

\* C21 witness: two connections at once, each echoed its own bytes: while
\* one handler was in its write, the other read different bytes.
C21_Witness ==
  /\ chunks[1] = << << 1, 1 >> >>
  /\ hstate[2] = "write"
  /\ buffer[2] = << 0, 0 >>
  /\ nread[2] = 1
  /\ buffer[1] = << 1, 1 >>

\* The read branch of handler h wins in this step.
ReadWins(h) ==
  \/ hstate'[h] = "write"
  \/ hstate'[h] = "closed" /\ reason'[h] \in {"eof", "readerr"}

\* C22 as stated: with the trigger stored, the next handler to reach a
\* race point consumes it: a handler that stands at its race while the
\* trigger is stored leaves the race through the shutdown branch.
C22_NextHandlerConsumes ==
  [][\A h \in Handlers :
       (permit /\ hstate[h] = "race" /\ hstate'[h] # "race")
         => reason'[h] = "shutdown"]_vars

\* C22 amended: a shutdown() call that finds no handler waiting stores the
\* trigger; the stored trigger goes away only when a handler at its race
\* point takes the shutdown branch and closes; every handler that stands
\* at a race point while it is stored can take it there and cannot go to
\* sleep past it; and when such a handler's read branch wins instead, the
\* trigger stays stored for a later race.
C22_StoredTriggerKept ==
  /\ [](\A h \in Handlers :
          (permit /\ hstate[h] = "race") =>
            (ENABLED ShutdownBranch(h) /\ ~ENABLED Suspend(h)))
  /\ [][/\ (shutdownCalls' # shutdownCalls /\ waiters = << >>) => permit'
        /\ (permit /\ ~permit') =>
             \E h \in Handlers : /\ hstate[h] = "race"
                                  /\ hstate'[h] = "closed"
                                  /\ reason'[h] = "shutdown"
                                  /\ chunks'[h] = chunks[h]
        /\ \A h \in Handlers :
             (permit /\ hstate[h] = "race" /\ hstate'[h] # "race") =>
               \/ reason'[h] = "shutdown" /\ ~permit'
               \/ ReadWins(h) /\ permit']_vars

\* C22 amended, witness: one shutdown() call was made while no handler
\* waited; the only connection stands at its first race point, nothing
\* read and nothing echoed, with the trigger stored.
C22_Witness ==
  /\ shutdownCalls = 1
  /\ permit
  /\ hstate[1] = "race"
  /\ OnlyConnection(1)
  /\ rpos[1] = 0
  /\ chunks[1] = << >>

\* C23: the handlers closed through the shutdown branch, together with the
\* triggers still stored or handed out, are never more than the shutdown()
\* calls made; a call that finds no handler waiting only sets the one
\* stored trigger (a second such call adds nothing to it); and every close
\* through the shutdown branch uses up one trigger and closes one handler.
C23_ClosedAtMostCalls ==
  /\ [](Cardinality(ShutdownClosed) + Pending <= shutdownCalls)
  /\ [][/\ (shutdownCalls' # shutdownCalls /\ waiters = << >>) =>
             /\ permit'
             /\ notified' = notified
             /\ Pending' = Cardinality(notified) + 1
             /\ permit => Pending' = Pending
        /\ ShutdownClosed' # ShutdownClosed =>
             /\ Cardinality(ShutdownClosed') = Cardinality(ShutdownClosed) + 1
             /\ Pending' = Pending - 1
             /\ shutdownCalls' = shutdownCalls]_vars

\* C23 witness: two shutdown() calls, one handler closed through the
\* shutdown branch, and nothing is left of the other call: no trigger is
\* stored or handed out and the second handler waits on.
C23_Witness ==
  /\ shutdownCalls = 2
  /\ \E h \in Handlers : \E g \in Others(h) :
       /\ reason[h] = "shutdown"
       /\ hstate[g] = "wait"
  /\ Pending = 0

\* The handlers spawned so far.
Spawned == {h \in Handlers : hstate[h] # "none"}

UTakesTrigger ==
  \/ /\ upermit /\ ~upermit'
     /\ unotified' = unotified
  \/ /\ Loop \in unotified /\ Loop \notin unotified'
     /\ upermit' = upermit

\* C25: run() returns only through the shutdown branch.  Whenever run()
\* has returned, shutdown() was called before and the value is Ok(()); the
\* step in which it returns takes a shutdown trigger; and a step in which
\* recv_from or send_to fails returns nothing but that.
C25_ReturnsOnlyOnShutdown ==
  /\ [](/\ uresult \in {"", "ok"}
        /\ urun = "returned" <=> uresult = "ok"
        /\ urun = "returned" => ushutdownCalls >= 1)
  /\ [][/\ (urun # "returned" /\ urun' = "returned") =>
             /\ urun \in {"race", "wait", "norecv"}
             /\ UTakesTrigger
             /\ uresult' = "ok"
        /\ (recvErrs' # recvErrs /\ ~UTakesTrigger) =>
             (urun' # "returned" /\ uresult' = "")
        /\ (Len(sends') # Len(sends) /\ ~LastOf(sends').ok) =>
             (urun' # "returned" /\ uresult' = "")]_vars

\* C25 witness: run() returned Ok(()) on shutdown after a send_to had
\* failed and a recv_from had failed.
C25_Witness ==
  /\ urun = "returned"
  /\ uresult = "ok"
  /\ recvErrs = 1
  /\ Len(sends) = 1
  /\ ~sends[1].ok

\* C26: when recv_from fails the loop is left waiting on the shutdown
\* signal alone (or returns Ok(()) at once when a trigger is there at that
\* poll).  In that wait nothing is received, sent or retried; the loop is
\* registered with the signal; its only step is the shutdown branch, on
\* which run() returns Ok(()).
C26_RecvErrorLeavesShutdownOnly ==
  /\ [](/\ urun = "norecv" => recvErrs > 0
        /\ recvErrs > 0 => urun \in {"norecv", "returned"}
        /\ urun = "norecv" =>
             /\ ~ENABLED URecv
             /\ ~ENABLED URecvErr
             /\ ~ENABLED USuspend
             /\ ~ENABLED (\E ok \in BOOLEAN : USend(ok))
             /\ Loop \in unotified \/ Loop \in SeqToSet(uwaiters)
             /\ ENABLED UShutdownBranch <=> Loop \in unotified)
  /\ [][/\ recvErrs' # recvErrs =>
             /\ urun \in {"race", "wait"}
             /\ urun' = IF UTakesTrigger THEN "returned" ELSE "norecv"
             /\ UNCHANGED << rcount, sends, ubuf, ulen, uaddr >>
        /\ urun = "norecv" =>
             /\ UNCHANGED << rcount, sends, ubuf, ulen, uaddr, recvErrs >>
             /\ urun' \in {"norecv", "returned"}
             /\ urun' = "returned" => (UTakesTrigger /\ uresult' = "ok")]_vars

\* C26 witness: recv_from failed after one datagram was echoed; a second
\* datagram has arrived since and lies unreceived, and no shutdown() call
\* has been made.
C26_Witness ==
  /\ urun = "norecv"
  /\ recvErrs = 1
  /\ Len(dgrams) = 2
  /\ rcount = 1
  /\ Len(sends) = 1
  /\ ushutdownCalls = 0
====
